---- MODULE Spec2Model ----
(***************************************************************************)
(* The balloon counting game (game3balloons.py, gameballoons.py) as a      *)
(* state machine.  One action per pointer-down event, one per quit event   *)
(* and one for the rest of a frame (flag relocation by the draw code and   *)
(* the time-based update).  A frame is any finite run of event actions     *)
(* followed by one Frame action.                                           *)
(*                                                                         *)
(* Geometry is kept in grid cells instead of pixels: the screen is WIDTH x *)
(* HEIGHT cells and the controls keep, cell for cell, the relative layout  *)
(* of the source (three language controls in a row, relocated to the top   *)
(* row once a language is chosen; the start control at the centre; the     *)
(* restart control below the centre).  pygame.Rect arithmetic is kept as   *)
(* it is: integer coordinates, half-open extent, centre = x + w // 2.      *)
(*                                                                         *)
(* Spec and SpecQuit are the loop of game3balloons.py, without and with    *)
(* quit events.  gameballoons.py has the same game functions (lines        *)
(* 229-256); its loop differs in the text, and so the width, of the        *)
(* restart control, in the Esc key (a second way to clear running outside  *)
(* the browser) and in the try / except around the frame.  Its event       *)
(* dispatch and update are the _gameballoons definitions, its loop the     *)
(* main_ actions: SpecGameballoons is that loop with frames that raise.    *)
(***************************************************************************)
EXTENDS Integers, Sequences, FiniteSets, TLC

\* ---- bounds of the model -------------------------------------------------
\* screen size in cells (the source uses 800 x 600 pixels)
WIDTH == 8
HEIGHT == 6
\* the time-based update spawns no balloon while this many are active
MaxBalloons == 2

\* ---- program constants ---------------------------------------------------
MAX_COUNT == 10
balloon_speed == 2

\* the keys of the flags dict, in insertion (= iteration) order
Languages == <<"Macedonian", "English", "French">>
LanguageSet == {Languages[i] : i \in 1..Len(Languages)}
\* selected_language = None
NoLanguage == "None"

\* ---- pygame.Rect ---------------------------------------------------------
Rect(x, y, w, h) == [x |-> x, y |-> y, w |-> w, h |-> h]
RectLeft(r) == r.x
RectRight(r) == r.x + r.w
RectTop(r) == r.y
RectBottom(r) == r.y + r.h
collidepoint(r, px, py) ==
    /\ r.x <= px /\ px < r.x + r.w
    /\ r.y <= py /\ py < r.y + r.h

\* ---- controls ------------------------------------------------------------
\* flags = {...}: the language controls as constructed (middle row)
flags_initial ==
    [l \in LanguageSet |->
        CASE l = "Macedonian" -> Rect(WIDTH \div 2 - 2, 2, 1, 1)
          [] l = "English"    -> Rect(WIDTH \div 2, 2, 1, 1)
          [] l = "French"     -> Rect(WIDTH \div 2 + 2, 2, 1, 1)]

\* x_positions of the draw code, index i of flags.items()
x_positions == <<WIDTH \div 2 - 2, WIDTH \div 2, WIDTH \div 2 + 2>>

LangIndex(l) == CHOOSE i \in 1..Len(Languages) : Languages[i] = l

\* the draw code: with a language selected every flag rect is moved to the
\* top row (rect.x, rect.y = x_positions[i] - rect.width // 2, top)
move_flags(fl, lang) ==
    IF lang = NoLanguage THEN fl
    ELSE [l \in LanguageSet |->
            [fl[l] EXCEPT !.x = x_positions[LangIndex(l)] - (fl[l].w \div 2),
                          !.y = 0]]

start_button == Rect(WIDTH \div 2 - 1, HEIGHT \div 2, 2, 1)

\* make_button_rect_for_text(text, centerx, centery): w, h are the padded
\* text size
make_button_rect_for_text(w, h, centerx, centery) ==
    Rect(centerx - (w \div 2), centery - (h \div 2), w, h)

\* the restart control of game3balloons.py ("RECOMMENCER")
restart_button == make_button_rect_for_text(4, 1, WIDTH \div 2, HEIGHT \div 2 + 1)

\* ---- balloons ------------------------------------------------------------
\* BALLOON_IMAGES: the sizes (get_rect()) of the loaded images; one of even
\* and one of odd width, both taller than balloon_speed so that balloons
\* spawned in successive frames overlap
BALLOON_IMAGES == <<[w |-> 2, h |-> 3], [w |-> 3, h |-> 3]>>

\* representatives of random.randint(a, b): both ends of the range
RandInt(a, b) == {a, b}

Drifts == {-1, 0, 1}

\* the draws of one create_balloon() call
BalloonDraws ==
    {d \in [img : 1..Len(BALLOON_IMAGES), cx : 0..WIDTH, dx : Drifts] :
        d.cx \in RandInt(BALLOON_IMAGES[d.img].w \div 2,
                         WIDTH - (BALLOON_IMAGES[d.img].w \div 2))}

create_balloon(d) ==
    LET w == BALLOON_IMAGES[d.img].w
        h == BALLOON_IMAGES[d.img].h
        centery == HEIGHT + (h \div 2)
    IN  [surf |-> d.img,
         rect |-> Rect(d.cx - (w \div 2), centery - (h \div 2), w, h),
         dx   |-> d.dx]

\* variant: the hit test compares the column only
is_balloon_touched_x_only(b, touch_x, touch_y) ==
    b.rect.x <= touch_x /\ touch_x < b.rect.x + b.rect.w

is_balloon_touched(b, touch_x, touch_y) == collidepoint(b.rect, touch_x, touch_y)

\* list.remove(b): drops the first element equal to b
RECURSIVE list_remove(_, _)
list_remove(bs, b) ==
    IF bs = <<>> THEN <<>>
    ELSE IF Head(bs) = b THEN Tail(bs)
    ELSE <<Head(bs)>> \o list_remove(Tail(bs), b)


\* ---- state ---------------------------------------------------------------
VARIABLES
    selected_language,  \* None or a key of flags
    game_started,
    game_over,
    applause_played,
    balloons,           \* the list of active balloons, oldest first
    popped_count,
    flags,              \* the language controls' rects (moved by the draw code)
    running,            \* the loop variable
    exited,             \* the while loop has been left
    applause_calls,     \* history: play_applause() calls since the last start_game()
    pops,               \* history: balloons removed by a click since the last start_game()
    spoken,             \* history: speak_number(n, lang) calls since the last start_game()
    restarted,          \* history: start_game() has been called from the game_over branch
    clicked,            \* history: a pointer-down event of the current frame has changed the session
    last_error          \* gameballoons.py: _last_error is set (the last frame raised)

vars == <<selected_language, game_started, game_over, applause_played, balloons,
          popped_count, flags, running, exited, applause_calls, pops, spoken,
          restarted, clicked, last_error>>

\* the module-level game state as one value
Session ==
    [selected_language |-> selected_language,
     game_started      |-> game_started,
     game_over         |-> game_over,
     applause_played   |-> applause_played,
     balloons          |-> balloons,
     popped_count      |-> popped_count,
     applause_calls    |-> applause_calls,
     pops              |-> pops,
     spoken            |-> spoken,
     restarted         |-> restarted]

Commit(s) ==
    /\ selected_language' = s.selected_language
    /\ game_started' = s.game_started
    /\ game_over' = s.game_over
    /\ applause_played' = s.applause_played
    /\ balloons' = s.balloons
    /\ popped_count' = s.popped_count
    /\ applause_calls' = s.applause_calls
    /\ pops' = s.pops
    /\ spoken' = s.spoken
    /\ restarted' = s.restarted

\* ---- sound (fire and forget; the calls are recorded) ---------------------
speak_number(s, n, lang) == [s EXCEPT !.spoken = Append(@, <<n, lang>>)]

play_applause(s) == [s EXCEPT !.applause_calls = @ + 1]

\* ---- game logic ----------------------------------------------------------
\* variant: the new balloon is appended to the old list
start_game_appends(s, d) ==
    [s EXCEPT !.game_started = TRUE,
              !.game_over = FALSE,
              !.applause_played = FALSE,
              !.balloons = Append(@, create_balloon(d)),
              !.popped_count = 0,
              !.applause_calls = 0,
              !.pops = 0,
              !.spoken = <<>>]

\* variant: start_game() also resets the language
start_game_clears_language(s, d) ==
    [s EXCEPT !.game_started = TRUE,
              !.game_over = FALSE,
              !.applause_played = FALSE,
              !.balloons = <<create_balloon(d)>>,
              !.popped_count = 0,
              !.selected_language = NoLanguage,
              !.applause_calls = 0,
              !.pops = 0,
              !.spoken = <<>>]

\* start_game(); d is the draw of its create_balloon()
start_game(s, d) ==
    [s EXCEPT !.game_started = TRUE,
              !.game_over = FALSE,
              !.applause_played = FALSE,
              !.balloons = <<create_balloon(d)>>,
              !.popped_count = 0,
              !.applause_calls = 0,
              !.pops = 0,
              !.spoken = <<>>]

\* variant: game_started is not cleared
finish_game_keeps_started(s) ==
    LET s1 == [s EXCEPT !.game_over = TRUE]
    IN  IF ~s1.applause_played
        THEN [play_applause(s1) EXCEPT !.applause_played = TRUE]
        ELSE s1

\* variant: no applause_played guard
finish_game_always_applauds(s) ==
    LET s1 == [s EXCEPT !.game_over = TRUE, !.game_started = FALSE]
    IN  [play_applause(s1) EXCEPT !.applause_played = TRUE]

\* variant: game_over is not set
finish_game_not_over(s) ==
    LET s1 == [s EXCEPT !.game_started = FALSE]
    IN  IF ~s1.applause_played
        THEN [play_applause(s1) EXCEPT !.applause_played = TRUE]
        ELSE s1

finish_game(s) ==
    LET s1 == [s EXCEPT !.game_over = TRUE, !.game_started = FALSE]
    IN  IF ~s1.applause_played
        THEN [play_applause(s1) EXCEPT !.applause_played = TRUE]
        ELSE s1

\* variant: speak_number() without the popped_count <= MAX_COUNT guard
pop_balloon_speaks_unguarded(s, b) ==
    LET s1 == [s EXCEPT !.balloons = list_remove(@, b), !.pops = @ + 1]
        s2 == [s1 EXCEPT !.popped_count = @ + 1]
        s3 == IF s2.selected_language # NoLanguage
              THEN speak_number(s2, s2.popped_count, s2.selected_language)
              ELSE s2
    IN  IF s3.popped_count >= MAX_COUNT THEN finish_game(s3) ELSE s3

\* variant: finish_game() only when the count has passed MAX_COUNT
pop_balloon_finishes_late(s, b) ==
    LET s1 == [s EXCEPT !.balloons = list_remove(@, b), !.pops = @ + 1]
        s2 == [s1 EXCEPT !.popped_count = @ + 1]
        s3 == IF s2.popped_count <= MAX_COUNT /\ s2.selected_language # NoLanguage
              THEN speak_number(s2, s2.popped_count, s2.selected_language)
              ELSE s2
    IN  IF s3.popped_count > MAX_COUNT THEN finish_game(s3) ELSE s3

\* one hit of the pop pass: balloons.remove(b); popped_count += 1; speak; finish
pop_balloon(s, b) ==
    LET s1 == [s EXCEPT !.balloons = list_remove(@, b), !.pops = @ + 1]
        s2 == [s1 EXCEPT !.popped_count = @ + 1]
        s3 == IF s2.popped_count <= MAX_COUNT /\ s2.selected_language # NoLanguage
              THEN speak_number(s2, s2.popped_count, s2.selected_language)
              ELSE s2
    IN  IF s3.popped_count >= MAX_COUNT THEN finish_game(s3) ELSE s3

\* variant: the pass ends at the first balloon hit (a break in the loop)
RECURSIVE pop_pass_first_only(_, _, _, _, _)
pop_pass_first_only(s, snapshot, i, mx, my) ==
    IF i > Len(snapshot) THEN s
    ELSE IF is_balloon_touched(snapshot[i], mx, my)
         THEN pop_balloon(s, snapshot[i])
         ELSE pop_pass_first_only(s, snapshot, i + 1, mx, my)

\* variant: the pass iterates over the live list instead of a copy
RECURSIVE pop_pass_live_list(_, _, _, _, _)
pop_pass_live_list(s, snapshot, i, mx, my) ==
    IF i > Len(s.balloons) THEN s
    ELSE IF is_balloon_touched(s.balloons[i], mx, my)
         THEN pop_pass_live_list(pop_balloon(s, s.balloons[i]), snapshot, i + 1, mx, my)
         ELSE pop_pass_live_list(s, snapshot, i + 1, mx, my)

\* for b in balloons[:]: if is_balloon_touched(b, mx, my): ...
RECURSIVE pop_pass(_, _, _, _, _)
pop_pass(s, snapshot, i, mx, my) ==
    IF i > Len(snapshot) THEN s
    ELSE IF is_balloon_touched(snapshot[i], mx, my)
         THEN pop_pass(pop_balloon(s, snapshot[i]), snapshot, i + 1, mx, my)
         ELSE pop_pass(s, snapshot, i + 1, mx, my)

\* variant: the language is set without start_game()
RECURSIVE restart_on_language_only_selects(_, _, _, _, _, _)
restart_on_language_only_selects(s, fl, k, mx, my, d) ==
    IF k > Len(Languages) THEN s
    ELSE IF collidepoint(fl[Languages[k]], mx, my)
         THEN restart_on_language_only_selects(
                  [s EXCEPT !.selected_language = Languages[k]],
                  fl, k + 1, mx, my, d)
         ELSE restart_on_language_only_selects(s, fl, k + 1, mx, my, d)

\* game_over branch, second part: for lang, rect in flags.items(): if hit:
\* selected_language = lang; start_game()
RECURSIVE restart_on_language(_, _, _, _, _, _)
restart_on_language(s, fl, k, mx, my, d) ==
    IF k > Len(Languages) THEN s
    ELSE IF collidepoint(fl[Languages[k]], mx, my)
         THEN restart_on_language(
                  [start_game([s EXCEPT !.selected_language = Languages[k]], d)
                      EXCEPT !.restarted = TRUE],
                  fl, k + 1, mx, my, d)
         ELSE restart_on_language(s, fl, k + 1, mx, my, d)

\* variant: selecting a language also sets game_started
RECURSIVE select_language_and_start(_, _, _, _, _)
select_language_and_start(s, fl, k, mx, my) ==
    IF k > Len(Languages) THEN s
    ELSE IF collidepoint(fl[Languages[k]], mx, my)
         THEN select_language_and_start(
                  [s EXCEPT !.selected_language = Languages[k], !.game_started = TRUE],
                  fl, k + 1, mx, my)
         ELSE select_language_and_start(s, fl, k + 1, mx, my)

\* language-select branch: for lang, rect in flags.items(): if hit:
\* selected_language = lang
RECURSIVE select_language(_, _, _, _, _)
select_language(s, fl, k, mx, my) ==
    IF k > Len(Languages) THEN s
    ELSE IF collidepoint(fl[Languages[k]], mx, my)
         THEN select_language([s EXCEPT !.selected_language = Languages[k]],
                              fl, k + 1, mx, my)
         ELSE select_language(s, fl, k + 1, mx, my)

\* variant: the game_over test comes after the pop pass, so the click that
\* ends the game is also handled as a GameOver click
on_click_pop_then_game_over(s, fl, mx, my, d) ==
    LET restart(s0) ==
            LET s1 == IF collidepoint(restart_button, mx, my)
                      THEN [start_game(s0, d) EXCEPT !.restarted = TRUE] ELSE s0
            IN  restart_on_language(s1, fl, 1, mx, my, d)
    IN  IF s.game_over THEN restart(s)
        ELSE IF s.selected_language = NoLanguage
        THEN select_language(s, fl, 1, mx, my)
        ELSE IF ~s.game_started
        THEN IF collidepoint(start_button, mx, my) THEN start_game(s, d) ELSE s
        ELSE LET s2 == pop_pass(s, s.balloons, 1, mx, my)
             IN  IF s2.game_over THEN restart(s2) ELSE s2

\* the MOUSEBUTTONDOWN handler; every start_game() of one click overwrites
\* the whole game state, so one draw d stands for the draw of the last call
on_click(s, fl, mx, my, d) ==
    IF s.game_over
    THEN LET s1 == IF collidepoint(restart_button, mx, my)
                   THEN [start_game(s, d) EXCEPT !.restarted = TRUE] ELSE s
         IN  restart_on_language(s1, fl, 1, mx, my, d)
    ELSE IF s.selected_language = NoLanguage
    THEN select_language(s, fl, 1, mx, my)
    ELSE IF ~s.game_started
    THEN IF collidepoint(start_button, mx, my) THEN start_game(s, d) ELSE s
    ELSE pop_pass(s, s.balloons, 1, mx, my)

\* ---- time-based update ---------------------------------------------------
\* variant: the balloon rises half as fast
move_balloon_half_speed(b) ==
    LET r == [b.rect EXCEPT !.y = @ - balloon_speed \div 2, !.x = @ + b.dx]
    IN  [b EXCEPT !.rect = r,
                  !.dx = IF RectLeft(r) < 0 \/ RectRight(r) > WIDTH THEN -b.dx ELSE b.dx]

\* one balloon of the update pass: move up, drift, bounce
move_balloon(b) ==
    LET r == [b.rect EXCEPT !.y = @ - balloon_speed, !.x = @ + b.dx]
    IN  [b EXCEPT !.rect = r,
                  !.dx = IF RectLeft(r) < 0 \/ RectRight(r) > WIDTH THEN -b.dx ELSE b.dx]

\* variant: the balloon is dropped one frame late
off_screen_late(b) == RectBottom(b.rect) < -balloon_speed

\* if b["rect"].bottom < 0
off_screen(b) == RectBottom(b.rect) < 0

\* variant: the pass iterates over the live list, so the balloon after a
\* removed one is skipped
RECURSIVE update_pass_live_list(_, _)
update_pass_live_list(bs, i) ==
    IF i > Len(bs) THEN bs
    ELSE LET m == move_balloon(bs[i])
             bs1 == [bs EXCEPT ![i] = m]
         IN  IF off_screen(m)
             THEN update_pass_live_list(list_remove(bs1, m), i + 1)
             ELSE update_pass_live_list(bs1, i + 1)

\* for b in balloons[:]: the balloons are moved in place, so position i of
\* the list is the snapshot's next balloon; balloons.remove(b) drops the
\* first element equal to the moved b
RECURSIVE update_pass(_, _)
update_pass(bs, i) ==
    IF i > Len(bs) THEN bs
    ELSE LET m == move_balloon(bs[i])
             bs1 == [bs EXCEPT ![i] = m]
         IN  IF off_screen(m)
             THEN update_pass(list_remove(bs1, m), i)
             ELSE update_pass(bs1, i + 1)

\* variant: the update runs whenever the game is not over
time_update_unless_over(s, roll, d) ==
    IF ~s.game_over
    THEN LET bs == IF roll = 1 THEN Append(s.balloons, create_balloon(d))
                   ELSE s.balloons
         IN  [s EXCEPT !.balloons = update_pass(bs, 1)]
    ELSE s

\* variant: a balloon that leaves through the top is counted
time_update_counts_despawn(s, roll, d) ==
    IF s.game_started /\ ~s.game_over
    THEN LET bs == IF roll = 1 THEN Append(s.balloons, create_balloon(d))
                   ELSE s.balloons
             left == update_pass(bs, 1)
         IN  [s EXCEPT !.balloons = left,
                       !.popped_count = @ + (Len(bs) - Len(left))]
    ELSE s

\* if game_started and not game_over: roll is random.randint(1, 45)
time_update(s, roll, d) ==
    IF s.game_started /\ ~s.game_over
    THEN LET bs == IF roll = 1 THEN Append(s.balloons, create_balloon(d))
                   ELSE s.balloons
         IN  [s EXCEPT !.balloons = update_pass(bs, 1)]
    ELSE s

\* representatives of random.randint(1, 45)
SpawnRolls == {1, 45}

\* ---- gameballoons.py: main() ---------------------------------------------
\* the restart control of gameballoons.py ("START": a shorter text in the
\* same font, so a narrower control around the same centre)
restart_button_gameballoons ==
    make_button_rect_for_text(2, 1, WIDTH \div 2, HEIGHT \div 2 + 1)

\* variant: the game_over branch has no language loop
on_click_gameballoons_no_language_restart(s, fl, mx, my, d) ==
    IF s.game_over
    THEN IF collidepoint(restart_button_gameballoons, mx, my)
         THEN [start_game(s, d) EXCEPT !.restarted = TRUE] ELSE s
    ELSE IF s.selected_language = NoLanguage
    THEN select_language(s, fl, 1, mx, my)
    ELSE IF ~s.game_started
    THEN IF collidepoint(start_button, mx, my) THEN start_game(s, d) ELSE s
    ELSE pop_pass(s, s.balloons, 1, mx, my)

\* the MOUSEBUTTONDOWN handler of main(); start_game(), finish_game(),
\* create_balloon() and is_balloon_touched() of gameballoons.py (lines
\* 229-256) are the statements of game3balloons.py
on_click_gameballoons(s, fl, mx, my, d) ==
    IF s.game_over
    THEN LET s1 == IF collidepoint(restart_button_gameballoons, mx, my)
                   THEN [start_game(s, d) EXCEPT !.restarted = TRUE] ELSE s
         IN  restart_on_language(s1, fl, 1, mx, my, d)
    ELSE IF s.selected_language = NoLanguage
    THEN select_language(s, fl, 1, mx, my)
    ELSE IF ~s.game_started
    THEN IF collidepoint(start_button, mx, my) THEN start_game(s, d) ELSE s
    ELSE pop_pass(s, s.balloons, 1, mx, my)

\* the "Game loop when running" block of main()
time_update_gameballoons(s, roll, d) ==
    IF s.game_started /\ ~s.game_over
    THEN LET spawned == IF roll = 1 THEN <<create_balloon(d)>> ELSE <<>>
         IN  [s EXCEPT !.balloons = update_pass(s.balloons \o spawned, 1)]
    ELSE s

\* ---- the inputs of a step -----------------------------------------------
NoDraw == CHOOSE d \in BalloonDraws : TRUE

\* the click reaches a start_game() call
click_starts_game(s, fl, mx, my) ==
    IF s.game_over
    THEN \/ collidepoint(restart_button, mx, my)
         \/ \E l \in LanguageSet : collidepoint(fl[l], mx, my)
    ELSE /\ s.selected_language # NoLanguage
         /\ ~s.game_started
         /\ collidepoint(start_button, mx, my)

\* create_balloon() draws only where it is called
ClickDraws(s, fl, mx, my) ==
    IF click_starts_game(s, fl, mx, my) THEN BalloonDraws ELSE {NoDraw}

FrameDraws(s, roll) ==
    IF s.game_started /\ ~s.game_over /\ roll = 1 THEN BalloonDraws ELSE {NoDraw}

\* ---- the loop ------------------------------------------------------------
Init ==
    /\ selected_language = NoLanguage
    /\ game_started = FALSE
    /\ game_over = FALSE
    /\ applause_played = FALSE
    /\ balloons = <<>>
    /\ popped_count = 0
    /\ flags = flags_initial
    /\ running = TRUE
    /\ exited = FALSE
    /\ applause_calls = 0
    /\ pops = 0
    /\ spoken = <<>>
    /\ restarted = FALSE
    /\ clicked = FALSE
    /\ last_error = FALSE

\* a MOUSEBUTTONDOWN event at (mx, my)
MouseButtonDown(mx, my) ==
    /\ ~exited
    /\ \E d \in ClickDraws(Session, flags, mx, my) :
          Commit(on_click(Session, flags, mx, my, d))
    /\ clicked' = (clicked \/ Session' # Session)
    /\ UNCHANGED <<flags, running, exited, last_error>>

\* variant: the QUIT event leaves the loop at once
Quit_exits_at_once ==
    /\ ~exited
    /\ running' = FALSE
    /\ exited' = TRUE
    /\ UNCHANGED <<selected_language, game_started, game_over, applause_played,
                   balloons, popped_count, flags, applause_calls, pops,
                   spoken, restarted, clicked, last_error>>

\* a QUIT event
Quit ==
    /\ ~exited
    /\ running' = FALSE
    /\ UNCHANGED <<selected_language, game_started, game_over, applause_played,
                   balloons, popped_count, flags, exited, applause_calls, pops,
                   spoken, restarted, clicked, last_error>>

\* the rest of the frame after the event batch: the draw code moves the
\* flags, the time-based update runs, and the loop test reads running
Frame ==
    /\ ~exited
    /\ \E roll \in SpawnRolls :
          /\ roll = 1 => Len(balloons) < MaxBalloons
          /\ \E d \in FrameDraws(Session, roll) :
                Commit(time_update(Session, roll, d))
    /\ flags' = move_flags(flags, selected_language)
    /\ exited' = ~running
    /\ clicked' = FALSE
    /\ UNCHANGED <<running, last_error>>

Click == \E mx \in 0..(WIDTH - 1), my \in 0..(HEIGHT - 1) : MouseButtonDown(mx, my)

\* a session in which no quit signal arrives
Next == Click \/ Frame

Spec == Init /\ [][Next]_vars

\* the same with quit signals
NextQuit == Click \/ Quit \/ Frame

SpecQuit == Init /\ [][NextQuit]_vars

\* ---- the loop of gameballoons.py ------------------------------------------
\* a MOUSEBUTTONDOWN event at (mx, my) in main()
main_MouseButtonDown(mx, my) ==
    /\ ~exited
    /\ \E d \in ClickDraws(Session, flags, mx, my) :
          Commit(on_click_gameballoons(Session, flags, mx, my, d))
    /\ clicked' = (clicked \/ Session' # Session)
    /\ UNCHANGED <<flags, running, exited, last_error>>

\* the rest of a frame of main() that raises nothing: draw code, update,
\* _last_error = None, loop test
main_Frame ==
    /\ ~exited
    /\ \E roll \in SpawnRolls :
          /\ roll = 1 => Len(balloons) < MaxBalloons
          /\ \E d \in FrameDraws(Session, roll) :
                Commit(time_update_gameballoons(Session, roll, d))
    /\ flags' = move_flags(flags, selected_language)
    /\ last_error' = FALSE
    /\ exited' = ~running
    /\ clicked' = FALSE
    /\ UNCHANGED running

\* the update pass up to the balloon whose screen.blit() raises: the
\* balloons before it are done, it has been moved and not yet tested for
\* despawn, the ones after it are untouched; i is the position in the live
\* list, left the number of balloons of the snapshot still to finish
RECURSIVE update_pass_raising(_, _, _)
update_pass_raising(bs, i, left) ==
    LET m == move_balloon(bs[i])
        bs1 == [bs EXCEPT ![i] = m]
    IN  IF left = 0 THEN bs1
        ELSE IF off_screen(m)
             THEN update_pass_raising(list_remove(bs1, m), i, left - 1)
             ELSE update_pass_raising(bs1, i + 1, left - 1)

\* the "Game loop when running" block when the blit of balloon k raises
time_update_raising(s, roll, d, k) ==
    LET spawned == IF roll = 1 THEN <<create_balloon(d)>> ELSE <<>>
    IN  [s EXCEPT !.balloons = update_pass_raising(s.balloons \o spawned, 1, k - 1)]

\* variant: the handler lets the fault end the loop
main_except_exits ==
    /\ ~exited
    /\ ~last_error
    /\ ~restarted
    /\ last_error' = TRUE
    /\ exited' = TRUE
    /\ clicked' = FALSE
    /\ UNCHANGED <<selected_language, game_started, game_over, applause_played,
                   balloons, popped_count, flags, running, applause_calls, pops,
                   spoken, restarted>>

\* a frame of main() that raises: in the event loop (the rest of the batch,
\* the draw code and the update are skipped), or in the update pass at the
\* blit of balloon k; except Exception sets _last_error, then the loop test.
\* Raising frames are followed in the first game only, and each follows a
\* frame that did not raise: with a fault in every frame a balloon is moved
\* and never tested for despawn, without end
main_except ==
    /\ ~exited
    /\ ~last_error
    /\ ~restarted
    /\ \/ UNCHANGED <<selected_language, game_started, game_over, applause_played,
                      balloons, popped_count, flags, applause_calls, pops,
                      spoken, restarted>>
       \/ /\ game_started /\ ~game_over
          /\ \E roll \in SpawnRolls :
                /\ roll = 1 => Len(balloons) < MaxBalloons
                /\ \E d \in FrameDraws(Session, roll) :
                      \E k \in 1..(Len(balloons) + (IF roll = 1 THEN 1 ELSE 0)) :
                         Commit(time_update_raising(Session, roll, d, k))
          /\ flags' = move_flags(flags, selected_language)
    /\ last_error' = TRUE
    /\ exited' = ~running
    /\ clicked' = FALSE
    /\ UNCHANGED running

main_Click ==
    \E mx \in 0..(WIDTH - 1), my \in 0..(HEIGHT - 1) : main_MouseButtonDown(mx, my)

NextGameballoons == main_Click \/ main_Frame \/ main_except

SpecGameballoons == Init /\ [][NextGameballoons]_vars

\* ---- the states of the session -------------------------------------------
\* the state the event dispatch sees (the order of its if / elif chain)
State ==
    IF game_over THEN "GameOver"
    ELSE IF selected_language = NoLanguage THEN "LanguageSelect"
    ELSE IF ~game_started THEN "Idle"
    ELSE "Playing"

\* the point lies within the rectangle (left and top edge included, right
\* and bottom edge excluded)
Inside(r, px, py) ==
    /\ RectLeft(r) <= px /\ px < RectRight(r)
    /\ RectTop(r) <= py /\ py < RectBottom(r)

ClickXs == 0..(WIDTH - 1)
ClickYs == 0..(HEIGHT - 1)

OnLanguageControl(px, py) == \E l \in LanguageSet : Inside(flags[l], px, py)
OnRestartControl(px, py) == Inside(restart_button, px, py)
OnStartControl(px, py) == Inside(start_button, px, py)

\* the balloons (positions in the list) under the point
Under(px, py) == {i \in 1..Len(balloons) : Inside(balloons[i].rect, px, py)}

\* a balloon as create_balloon() returns it: not moved yet
Fresh(b) == RectTop(b.rect) = HEIGHT

\* the game state after a MOUSEBUTTONDOWN event at (mx, my) in the current
\* state, d being the draw of create_balloon()
AfterClick(mx, my, d) == on_click(Session, flags, mx, my, d)

\* the fields of the game state C7 names
Core(s) ==
    <<s.balloons, s.popped_count, s.selected_language, s.game_started, s.game_over>>

\* ---- C1 ------------------------------------------------------------------
\* C1: in every reachable state game_started and game_over are never both
\* true.
C1_NeverStartedAndOver == ~(game_started /\ game_over)

\* a game has been played to its end
C1_Witness == game_over /\ ~game_started /\ popped_count >= MAX_COUNT

\* ---- C2 ------------------------------------------------------------------
\* C2: the step in which popped_count reaches MAX_COUNT ends in GameOver
\* (game_over true, game_started false), and play_applause() has been called
\* exactly once since the last start_game() in every GameOver state and not
\* at all in any other state, also when the click pops further balloons.
C2_GameOverAndApplauseOnce ==
    [][ /\ (popped_count < MAX_COUNT /\ popped_count' >= MAX_COUNT)
            => (game_over' /\ ~game_started')
        /\ applause_calls' = (IF game_over' THEN 1 ELSE 0)
      ]_vars

\* the click that ended the game popped one balloon more
C2_Witness == game_over /\ popped_count > MAX_COUNT /\ applause_calls = 1

\* ---- C3 ------------------------------------------------------------------
\* C3: in every reachable state, a click that calls start_game() (start
\* control in Idle, restart control or language control in GameOver) leaves
\* exactly one balloon, popped_count = 0, game_started true, game_over and
\* applause_played false, whatever the draw of create_balloon().
C3_StartGameResets ==
    \A mx \in ClickXs, my \in ClickYs :
       ( \/ State = "Idle" /\ OnStartControl(mx, my)
         \/ State = "GameOver" /\ (OnRestartControl(mx, my) \/ OnLanguageControl(mx, my)) )
       => \A d \in BalloonDraws :
             LET s == AfterClick(mx, my, d)
             IN  /\ Len(s.balloons) = 1
                 /\ s.popped_count = 0
                 /\ s.game_started
                 /\ ~s.game_over
                 /\ ~s.applause_played

\* a game restarted after a game over: one new balloon, nothing counted
C3_Witness ==
    /\ restarted /\ game_started /\ ~game_over /\ ~applause_played
    /\ popped_count = 0 /\ Len(balloons) = 1 /\ Fresh(balloons[1])

\* ---- C4 ------------------------------------------------------------------
\* C4: in GameOver a click on the restart control or on a language control
\* leads to Playing with popped_count = 0 and game_over false; on a language
\* control it also selects that language (on the restart control the language
\* stays); a click on neither changes nothing.
C4_GameOverClicks ==
    State = "GameOver" =>
       \A mx \in ClickXs, my \in ClickYs, d \in BalloonDraws :
          LET s == AfterClick(mx, my, d)
          IN  IF OnRestartControl(mx, my) \/ OnLanguageControl(mx, my)
              THEN /\ s.game_started /\ ~s.game_over
                   /\ s.selected_language # NoLanguage
                   /\ s.popped_count = 0
                   /\ \A l \in LanguageSet :
                         Inside(flags[l], mx, my) => s.selected_language = l
                   /\ ~OnLanguageControl(mx, my)
                         => s.selected_language = selected_language
              ELSE s = Session

\* a game restarted in French after a game over
C4_Witness ==
    /\ restarted /\ State = "Playing" /\ popped_count = 0
    /\ selected_language = "French" /\ Fresh(balloons[Len(balloons)])

\* ---- C5 ------------------------------------------------------------------
\* C5: popped_count equals the number of balloons removed by a click since
\* the last start_game().
C5_CountEqualsPops == popped_count = pops

\* two balloons popped, another one still active
C5_Witness == State = "Playing" /\ pops >= 2 /\ popped_count = pops /\ Len(balloons) >= 1

\* ---- C6 ------------------------------------------------------------------
\* the click popped the balloons under its point, each raising the count by 1
PopStep ==
    /\ State = "Playing"
    /\ popped_count' > popped_count
    /\ \E mx \in ClickXs, my \in ClickYs :
          /\ Under(mx, my) # {}
          /\ popped_count' = popped_count + Cardinality(Under(mx, my))
          /\ MouseButtonDown(mx, my)

\* the click called start_game()
StartStep ==
    /\ State \in {"Idle", "GameOver"}
    /\ \E mx \in ClickXs, my \in ClickYs :
          /\ \/ State = "Idle" /\ OnStartControl(mx, my)
             \/ State = "GameOver"
                /\ (OnRestartControl(mx, my) \/ OnLanguageControl(mx, my))
          /\ MouseButtonDown(mx, my)

\* C6 as stated: every step leaves popped_count unchanged or raises it by
\* exactly 1, and only start_game() lowers it, to 0.
C6_RaisedByExactlyOne ==
    [][ \/ popped_count' = popped_count
        \/ popped_count' = popped_count + 1
        \/ popped_count' = 0 /\ StartStep
      ]_vars

\* C6 as amended: every step leaves popped_count unchanged, or is a click in
\* Playing that raises it by the number of balloons under the click point (at
\* least 1, more than 1 where balloons overlap), or is a click that calls
\* start_game() and sets it to 0.
C6_RaisedByBalloonsUnderClick ==
    [][ \/ popped_count' = popped_count
        \/ PopStep
        \/ popped_count' = 0 /\ StartStep
      ]_vars

\* in a restarted game the last click popped two balloons: 9 -> 11
C6_Witness == restarted /\ State = "GameOver" /\ popped_count = MAX_COUNT + 1

\* ---- C7 ------------------------------------------------------------------
\* C7: in Playing with one balloon, a click inside its rectangle removes it
\* and raises popped_count by 1; in Playing a click outside every balloon's
\* rectangle leaves balloons, popped_count, selected_language, game_started
\* and game_over unchanged.
C7_HitAndMiss ==
    State = "Playing" =>
       \A mx \in ClickXs, my \in ClickYs :
          \A d \in ClickDraws(Session, flags, mx, my) :
             /\ (Len(balloons) = 1 /\ Inside(balloons[1].rect, mx, my))
                => LET s == AfterClick(mx, my, d)
                   IN  s.balloons = <<>> /\ s.popped_count = popped_count + 1
             /\ Under(mx, my) = {}
                => Core(AfterClick(mx, my, d)) = Core(Session)

\* the only balloon of the game was popped
C7_Witness == State = "Playing" /\ balloons = <<>> /\ pops = 1 /\ popped_count = 1

\* ---- C8 ------------------------------------------------------------------
\* the game state after the time-based update of the current state, for the
\* draws roll of random.randint(1, 45) and d of create_balloon()
AfterUpdate(roll, d) == time_update(Session, roll, d)

\* the fields a despawn must leave alone: the count, the flags that
\* finish_game() sets, the recorded sound calls
Scoring(s) ==
    <<s.popped_count, s.pops, s.game_started, s.game_over, s.applause_played,
      s.applause_calls, s.spoken>>

\* C8: in every reachable state, after the time-based update no balloon has
\* bottom < 0, and the update changes neither popped_count nor the
\* started / over / applause flags nor the recorded sound calls.
C8_DespawnSilent ==
    /\ \A i \in 1..Len(balloons) : RectBottom(balloons[i].rect) >= 0
    /\ \A roll \in SpawnRolls :
          \A d \in FrameDraws(Session, roll) :
             LET s == AfterUpdate(roll, d)
             IN  /\ \A i \in 1..Len(s.balloons) : RectBottom(s.balloons[i].rect) >= 0
                 /\ Scoring(s) = Scoring(Session)

\* the balloon of start_game() left through the top: nothing popped, none active
C8_Witness == State = "Playing" /\ balloons = <<>> /\ pops = 0 /\ popped_count = 0

\* ---- C9 ------------------------------------------------------------------
\* C9: with no language selected, a click inside a language control selects
\* that language and leaves the session in Idle (not started, not over)
\* without balloons; and in LanguageSelect and Idle, the states before the
\* first start_game(), the balloon list is empty.
C9_LanguageSelectToIdle ==
    /\ State = "LanguageSelect" =>
          \A mx \in ClickXs, my \in ClickYs, l \in LanguageSet :
             Inside(flags[l], mx, my) =>
                \A d \in BalloonDraws :
                   LET s == AfterClick(mx, my, d)
                   IN  /\ s.selected_language = l
                       /\ ~s.game_started
                       /\ ~s.game_over
                       /\ s.balloons = <<>>
    /\ State \in {"LanguageSelect", "Idle"} => balloons = <<>>

\* English was clicked; the draw code has not moved the controls yet
C9_Witness ==
    /\ State = "Idle" /\ selected_language = "English"
    /\ balloons = <<>> /\ flags = flags_initial

\* ---- C10 -----------------------------------------------------------------
\* a click on a language control
LanguageClickStep ==
    \E mx \in ClickXs, my \in ClickYs : OnLanguageControl(mx, my) /\ MouseButtonDown(mx, my)

\* a click on the start control
StartClickStep ==
    \E mx \in ClickXs, my \in ClickYs : OnStartControl(mx, my) /\ MouseButtonDown(mx, my)

\* a click on the restart control or on a language control
RestartClickStep ==
    \E mx \in ClickXs, my \in ClickYs :
       /\ OnRestartControl(mx, my) \/ OnLanguageControl(mx, my)
       /\ MouseButtonDown(mx, my)

\* C10: every step keeps the state or is one of LanguageSelect -> Idle by a
\* language click, Idle -> Playing by a click on the start control,
\* Playing -> GameOver with the count reaching MAX_COUNT, GameOver -> Playing
\* by a click on the restart control or a language control.
C10_Transitions ==
    [][ \/ State' = State
        \/ State = "LanguageSelect" /\ State' = "Idle" /\ LanguageClickStep
        \/ State = "Idle" /\ State' = "Playing" /\ StartClickStep
        \/ /\ State = "Playing" /\ State' = "GameOver"
           /\ popped_count < MAX_COUNT /\ popped_count' >= MAX_COUNT
        \/ State = "GameOver" /\ State' = "Playing" /\ RestartClickStep
      ]_vars

\* all four transitions taken: a restarted game played to its end
C10_Witness == restarted /\ State = "GameOver" /\ applause_played

\* ---- C11 -----------------------------------------------------------------
\* the session state C11 names
SessionState(s) ==
    <<s.selected_language, s.game_started, s.game_over, s.applause_played,
      s.popped_count, s.balloons>>

\* the draws a click of the current state can use in either variant
VariantDraws == IF State \in {"Idle", "GameOver"} THEN BalloonDraws ELSE {NoDraw}

\* the point lies in the restart control of one variant only
RestartEdge(px, py) ==
    Inside(restart_button, px, py) # Inside(restart_button_gameballoons, px, py)

\* both variants give the same session state for the click
ClickAgrees(mx, my) ==
    \A d \in VariantDraws :
       SessionState(on_click_gameballoons(Session, flags, mx, my, d))
          = SessionState(AfterClick(mx, my, d))

\* both variants give the same session state for the time-based update
UpdateAgrees ==
    \A roll \in SpawnRolls :
       \A d \in FrameDraws(Session, roll) :
          SessionState(time_update_gameballoons(Session, roll, d))
             = SessionState(AfterUpdate(roll, d))

\* C11 as stated: from every reachable session state, game3balloons.py and
\* gameballoons.py give the same session state for every pointer-down event
\* and for the time-based update, with the same draws (so they hold the same
\* state after every frame).
C11_VariantsAgree ==
    /\ \A mx \in ClickXs, my \in ClickYs : ClickAgrees(mx, my)
    /\ UpdateAgrees

\* C11 as amended: the same, except for a pointer-down event in GameOver at
\* a point that lies in the restart control of one variant only.
C11_VariantsAgreeOffRestartEdge ==
    /\ \A mx \in ClickXs, my \in ClickYs :
          ~(State = "GameOver" /\ RestartEdge(mx, my)) => ClickAgrees(mx, my)
    /\ UpdateAgrees

\* a game over in which a click inside both restart controls restarts both
\* variants alike, and a click in the wider control only restarts one
C11_Witness ==
    /\ State = "GameOver"
    /\ \E mx \in ClickXs, my \in ClickYs :
          /\ Inside(restart_button, mx, my)
          /\ Inside(restart_button_gameballoons, mx, my)
          /\ on_click_gameballoons(Session, flags, mx, my, NoDraw).game_started
          /\ AfterClick(mx, my, NoDraw).game_started
    /\ \E mx \in ClickXs, my \in ClickYs :
          /\ RestartEdge(mx, my)
          /\ ~on_click_gameballoons(Session, flags, mx, my, NoDraw).game_started
          /\ AfterClick(mx, my, NoDraw).game_started

\* ---- C12 -----------------------------------------------------------------
\* rect.centery
RectCentery(r) == r.y + (r.h \div 2)

\* the balloon lies within the side boundaries, right below the bottom
\* boundary, and drifts by at most one
SpawnedAsClaimed(b) ==
    /\ RectLeft(b.rect) >= 0
    /\ RectRight(b.rect) <= WIDTH
    /\ RectTop(b.rect) = HEIGHT
    /\ RectCentery(b.rect) = HEIGHT + (BALLOON_IMAGES[b.surf].h \div 2)
    /\ b.dx \in {-1, 0, 1}

\* C12: the balloon that start_game() gets from create_balloon() (click on
\* the start control in Idle, on the restart control in GameOver), for every
\* image and every draw, has rect.left >= 0, rect.right <= WIDTH,
\* rect.top = HEIGHT, its centre half a height below the bottom boundary and
\* a drift in {-1, 0, 1}.
C12_SpawnUnclipped ==
    \A mx \in ClickXs, my \in ClickYs :
       ( \/ State = "Idle" /\ OnStartControl(mx, my)
         \/ State = "GameOver" /\ OnRestartControl(mx, my) )
       => \A d \in BalloonDraws :
             SpawnedAsClaimed(AfterClick(mx, my, d).balloons[1])

\* ---- C13 -----------------------------------------------------------------
\* C13 as stated: a pointer-down event in Playing removes at most one balloon
\* and raises popped_count by at most 1, also when several balloons'
\* rectangles contain the click point.
C13_AtMostOnePerClick ==
    State = "Playing" =>
       \A mx \in ClickXs, my \in ClickYs :
          LET s == AfterClick(mx, my, NoDraw)
          IN  /\ Len(balloons) - Len(s.balloons) <= 1
              /\ s.popped_count - popped_count <= 1

\* C13 as amended: a pointer-down event in Playing removes every balloon
\* whose rectangle contains the click point, keeps the others in their
\* order, and raises popped_count by the number removed.
C13_AllUnderClickPopped ==
    State = "Playing" =>
       \A mx \in ClickXs, my \in ClickYs :
          LET s == AfterClick(mx, my, NoDraw)
              Missed(b) == ~Inside(b.rect, mx, my)
          IN  /\ s.balloons = SelectSeq(balloons, Missed)
              /\ s.popped_count = popped_count + Cardinality(Under(mx, my))

\* two balloons overlap, and a click on the overlap removes both
C13_Witness ==
    /\ State = "Playing"
    /\ \E mx \in ClickXs, my \in ClickYs :
          /\ Cardinality(Under(mx, my)) = 2
          /\ AfterClick(mx, my, NoDraw).balloons = <<>>
          /\ AfterClick(mx, my, NoDraw).popped_count = popped_count + 2

\* ---- C14 -----------------------------------------------------------------
\* C14 as stated: in every reachable state 0 <= popped_count <= MAX_COUNT.
C14_CountCapped == 0 <= popped_count /\ popped_count <= MAX_COUNT

\* where the count stands in each state of the session
CountByState ==
    /\ popped_count >= 0
    /\ State \in {"LanguageSelect", "Idle"} => popped_count = 0
    /\ State = "Playing" => popped_count < MAX_COUNT
    /\ State = "GameOver" => popped_count >= MAX_COUNT

\* C14 as amended: popped_count is never negative, stays below MAX_COUNT in
\* Playing and is at least MAX_COUNT in GameOver (above it when the click
\* that reached MAX_COUNT popped further balloons under its point); once it
\* has reached MAX_COUNT no step raises it, it stays until start_game() sets
\* it to 0.
C14_CountFrozenAtGameOver ==
    /\ []CountByState
    /\ [][popped_count >= MAX_COUNT => popped_count' \in {popped_count, 0}]_vars

\* the click that reached MAX_COUNT counted one balloon more; MAX_COUNT
\* numbers were spoken
C14_Witness ==
    /\ State = "GameOver" /\ popped_count = MAX_COUNT + 1
    /\ pops = popped_count /\ Len(spoken) = MAX_COUNT

\* ---- C15 -----------------------------------------------------------------
\* C15: the speak_number() calls since the last start_game() are, in order,
\* (1, lang), (2, lang), ... up to popped_count and never beyond MAX_COUNT,
\* lang being the selected language; in GameOver each of 1..MAX_COUNT has
\* been spoken exactly once.
C15_SpokenInOrder ==
    /\ Len(spoken) = (IF popped_count <= MAX_COUNT THEN popped_count ELSE MAX_COUNT)
    /\ \A i \in 1..Len(spoken) : spoken[i] = <<i, selected_language>>
    /\ State = "GameOver" => Len(spoken) = MAX_COUNT

\* a game in French ended by a click on two balloons: 9 and 10 were spoken,
\* 11 was not
C15_Witness ==
    /\ State = "GameOver" /\ popped_count = MAX_COUNT + 1
    /\ Len(spoken) = MAX_COUNT
    /\ spoken[MAX_COUNT - 1] = <<MAX_COUNT - 1, "French">>
    /\ spoken[MAX_COUNT] = <<MAX_COUNT, "French">>

\* ---- C16 -----------------------------------------------------------------
\* C16: outside Playing, a frame in which no pointer-down event changed the
\* session leaves the session and the flags unchanged; and in GameOver the
\* balloons stay as they are in every step but a start_game(), which
\* replaces them by one new balloon.
C16_UpdateOnlyInPlaying ==
    [][ /\ (~clicked /\ ~clicked' /\ State # "Playing")
            => (Session' = Session /\ flags' = flags)
        /\ State = "GameOver"
            => \/ balloons' = balloons
               \/ State' = "Playing" /\ Len(balloons') = 1 /\ Fresh(balloons'[1])
      ]_vars

\* a game over with a balloon left over, a frame later
C16_Witness == State = "GameOver" /\ ~clicked /\ balloons # <<>>

\* ---- C17 -----------------------------------------------------------------
\* image and position of a balloon
Placed(b) == [surf |-> b.surf, x |-> b.rect.x, y |-> b.rect.y]

\* the same one move later: up by balloon_speed, sideways by the drift
Shifted(b) == [surf |-> b.surf, x |-> b.rect.x + b.dx, y |-> b.rect.y - balloon_speed]

\* the bottom edge is not above the top boundary
StillVisible(p) == p.y + BALLOON_IMAGES[p.surf].h >= 0

\* the balloons at the start of the update pass, the spawned one included
AtPassStart(roll, d) ==
    IF roll = 1 THEN Append(balloons, create_balloon(d)) ELSE balloons

\* C17: in Playing, after the time-based update the list holds, in the same
\* order, every balloon that was active at the start of the pass (the one
\* spawned in this frame included) moved exactly once (y - balloon_speed,
\* x + drift), except those whose bottom edge has passed the top boundary.
C17_EachMovedOnce ==
    State = "Playing" =>
       \A roll \in SpawnRolls :
          \A d \in FrameDraws(Session, roll) :
             LET before == AtPassStart(roll, d)
                 after == AfterUpdate(roll, d).balloons
             IN  [i \in 1..Len(after) |-> Placed(after[i])]
                    = SelectSeq([i \in 1..Len(before) |-> Shifted(before[i])],
                                StillVisible)

\* the older of two balloons leaves through the top; the younger one is
\* still moved in that frame
C17_Witness ==
    /\ State = "Playing" /\ Len(balloons) = 2
    /\ ~StillVisible(Shifted(balloons[1]))
    /\ AfterUpdate(45, NoDraw).balloons = <<move_balloon(balloons[2])>>

\* ---- C18 -----------------------------------------------------------------
\* the horizontal extent lies within the side boundaries
WithinSides(b) == RectLeft(b.rect) >= 0 /\ RectRight(b.rect) <= WIDTH

\* C18: every active balloon has a drift in {-1, 0, 1} and lies at most one
\* pixel beyond a side boundary (rect.left >= -1, rect.right <= WIDTH + 1);
\* and in Playing a balloon that a frame's move has taken across a side
\* boundary is within [0, WIDTH] again after the next frame's move.
C18_BounceKeepsOnScreen ==
    \A i \in 1..Len(balloons) :
       LET b == balloons[i]
       IN  /\ b.dx \in {-1, 0, 1}
           /\ RectLeft(b.rect) >= -1
           /\ RectRight(b.rect) <= WIDTH + 1
           /\ (State = "Playing" /\ ~Fresh(b) /\ ~WithinSides(b))
                 => WithinSides(move_balloon(b))

\* ---- C19 -----------------------------------------------------------------
\* the session states the time-based update of the current state can give
UpdateResults ==
    UNION {{time_update(Session, roll, d) : d \in FrameDraws(Session, roll)} :
              roll \in SpawnRolls}

\* C19: the quit event only clears running: the frame goes on (the session
\* and the flags are as they were, the loop is not left); the loop is left
\* only at the end of a frame in which running has been cleared, after that
\* frame's time-based update; the end of such a frame (the step that clears
\* clicked) always leaves the loop; and once the loop is left nothing changes.
C19_QuitEndsAfterFrame ==
    [][ /\ ~exited
        /\ (running /\ ~running')
              => (~exited' /\ Session' = Session /\ flags' = flags)
        /\ exited' => (~running /\ Session' \in UpdateResults)
        /\ (~running /\ ~clicked') => exited'
      ]_vars

\* the loop was left during play, after a frame whose events popped a
\* balloon and whose update ran
C19_Witness ==
    /\ exited /\ ~running /\ State = "Playing"
    /\ pops >= 1 /\ Len(balloons) = 2 /\ ~Fresh(balloons[2])

\* ---- C20 -----------------------------------------------------------------
\* the frame that ends with this step raised
FaultStep == ~last_error /\ last_error'

\* every balloon of the list is a balloon of the pass start, as it was or
\* moved once
PartlyMoved(after, before) ==
    /\ Len(after) <= Len(before)
    /\ \A i \in 1..Len(after) :
          \E j \in 1..Len(before) :
             Placed(after[i]) \in {Placed(before[j]), Shifted(before[j])}

\* C20 as stated: a frame of gameballoons.py that raises does not end the
\* loop and leaves the session as it was at the start of the frame (stated
\* for the frames whose events changed nothing before the fault).
C20_FaultFreezesFrameStart ==
    [][ FaultStep => (~exited' /\ (~clicked => Session' = Session)) ]_vars

\* C20 as amended: a frame of gameballoons.py that raises does not end the
\* loop and rolls nothing back: the session keeps what the frame applied
\* before the fault.  The count, the started / over / applause flags, the
\* language and the recorded sound calls are as the events left them, and
\* the balloons are either untouched or partly updated (this frame's spawn
\* appended, each balloon as it was or moved once).
C20_FaultKeepsPartialFrame ==
    [][ FaultStep =>
          /\ ~exited'
          /\ running'
          /\ Scoring(Session)' = Scoring(Session)
          /\ selected_language' = selected_language
          /\ \/ balloons' = balloons
             \/ \E roll \in SpawnRolls :
                   \E d \in FrameDraws(Session, roll) :
                      PartlyMoved(balloons', AtPassStart(roll, d))
      ]_vars

\* the blit of the first balloon raised: it has been moved, the balloon
\* spawned in that frame has not
C20_Witness ==
    /\ last_error /\ ~exited /\ State = "Playing"
    /\ Len(balloons) = 2 /\ ~Fresh(balloons[1]) /\ Fresh(balloons[2])

\* ---- C21 -----------------------------------------------------------------
\* C21: every step takes one branch of the dispatch, chosen by the state at
\* that step.  From LanguageSelect no step starts the game; from Playing no
\* step restarts (the pops and the spoken numbers of the episode are kept,
\* also by the step that ends the game); from GameOver, and so for the
\* clicks that follow a game-ending click in the same batch, a step either
\* pops and counts nothing or is a start_game().
C21_OneBranchPerClick ==
    [][ /\ State = "LanguageSelect" => (~game_started' /\ balloons' = <<>>)
        /\ State = "Playing"
              => /\ State' \in {"Playing", "GameOver"}
                 /\ pops' >= pops
                 /\ Len(spoken') >= Len(spoken)
                 /\ restarted' = restarted
        /\ State = "GameOver"
              => \/ /\ balloons' = balloons /\ popped_count' = popped_count
                    /\ pops' = pops /\ spoken' = spoken /\ State' = "GameOver"
                 \/ /\ State' = "Playing" /\ popped_count' = 0 /\ pops' = 0
                    /\ Len(balloons') = 1
      ]_vars

\* a click of this frame's batch has ended the game and left a balloon; a
\* further click of the batch on that balloon pops nothing
C21_Witness ==
    /\ State = "GameOver" /\ clicked /\ balloons # <<>>
    /\ \E mx \in ClickXs, my \in ClickYs :
          /\ Under(mx, my) # {}
          /\ AfterClick(mx, my, NoDraw) = Session

\* ---- C22 -----------------------------------------------------------------
\* a click inside the control of language l
ClickOnLanguage(l) ==
    \E mx \in ClickXs, my \in ClickYs : Inside(flags[l], mx, my) /\ MouseButtonDown(mx, my)

\* C22: once a language is selected, no step unsets it, and the only steps
\* that change it are clicks in GameOver inside the control of the new
\* language; every other click and every time-based update leave it.
C22_LanguageKept ==
    [][ selected_language # NoLanguage
          => \/ selected_language' = selected_language
             \/ /\ selected_language' # NoLanguage
                /\ State = "GameOver"
                /\ ClickOnLanguage(selected_language')
      ]_vars

\* a game over in French: a click on the Macedonian control selects
\* Macedonian, a click on the restart control keeps French
C22_Witness ==
    /\ State = "GameOver" /\ selected_language = "French"
    /\ \E mx \in ClickXs, my \in ClickYs :
          /\ Inside(flags["Macedonian"], mx, my)
          /\ AfterClick(mx, my, NoDraw).selected_language = "Macedonian"
    /\ \E mx \in ClickXs, my \in ClickYs :
          /\ OnRestartControl(mx, my)
          /\ AfterClick(mx, my, NoDraw).selected_language = "French"
          /\ AfterClick(mx, my, NoDraw).game_started

\* ---- C23 -----------------------------------------------------------------
\* the claimed bound on the frames a balloon is active
Lifetime(b) == (HEIGHT + b.rect.h) \div balloon_speed + 1

\* the frames whose update has moved the balloon: it is spawned with its
\* top at HEIGHT and every update of Playing lifts it by balloon_speed
FramesLived(b) == (HEIGHT - RectTop(b.rect)) \div balloon_speed

\* image and frames lived of a balloon
Aged(b) == [surf |-> b.surf, frames |-> FramesLived(b), bound |-> Lifetime(b)]

\* the same one frame later
OneFrameOlder(b) == [Aged(b) EXCEPT !.frames = @ + 1]

\* the balloon has not used up its frames
WithinLifetime(a) == a.frames < a.bound

\* C23: every active balloon has lived a whole number of frames, fewer than
\* (HEIGHT + height) / balloon_speed + 1; and every update in Playing makes
\* each balloon of the pass (the one spawned in this frame included) one
\* frame older and keeps exactly those that are still below that bound, so
\* a balloon is out of the list by the end of its last frame at the latest.
C23_BoundedLifetime ==
    /\ \A i \in 1..Len(balloons) :
          /\ RectTop(balloons[i].rect) <= HEIGHT
          /\ (HEIGHT - RectTop(balloons[i].rect)) % balloon_speed = 0
          /\ WithinLifetime(Aged(balloons[i]))
    /\ State = "Playing" =>
          \A roll \in SpawnRolls :
             \A d \in FrameDraws(Session, roll) :
                LET before == AtPassStart(roll, d)
                    after == AfterUpdate(roll, d).balloons
                IN  [i \in 1..Len(after) |-> Aged(after[i])]
                       = SelectSeq([i \in 1..Len(before) |-> OneFrameOlder(before[i])],
                                   WithinLifetime)

\* a balloon in the last frame of its lifetime: the update drops it
C23_Witness ==
    /\ State = "Playing" /\ Len(balloons) = 1 /\ ~clicked
    /\ FramesLived(balloons[1]) = Lifetime(balloons[1]) - 1
    /\ AfterUpdate(45, NoDraw).balloons = <<>>

====
